---- MODULE Spec2Model ----
(***************************************************************************)
(* Model of the four example scripts of completions-vs-responses-api:      *)
(*   cc_multi.py         chat completions, tool round trip + JSON mode     *)
(*   responses_multi.py  responses API, tool round trip + parsed output    *)
(*   cc_so.py            chat completions, json_schema structured output   *)
(*   responses_so.py     responses API, parsed structured output           *)
(* The hosted backend is the environment: what it answers in each turn is  *)
(* chosen in Init and read by the scripts.  The two multi-turn scripts are *)
(* executed side by side against one backend behaviour.                    *)
(***************************************************************************)
EXTENDS Naturals, Sequences, FiniteSets

\* Largest number of tool calls the backend puts in one turn-1 response.
MaxCalls == 2

----------------------------------------------------------------------------
(* Python values.  Every value is a record [t, v, items]: t is the Python  *)
(* type, v the literal of a scalar, items the ordered entries of a dict or *)
(* a list (entries are [k, val]; a list uses its indices as keys).         *)

Entry(k, val) == [k |-> k, val |-> val]
Str(s) == [t |-> "str", v |-> s, items |-> <<>>]
Int(s) == [t |-> "int", v |-> s, items |-> <<>>]
Float(s) == [t |-> "float", v |-> s, items |-> <<>>]
Bool(b) == [t |-> "bool", v |-> IF b THEN "True" ELSE "False", items |-> <<>>]
PyNone == [t |-> "NoneType", v |-> "None", items |-> <<>>]
Dict(entries) == [t |-> "dict", v |-> "", items |-> entries]
List(entries) == [t |-> "list", v |-> "", items |-> entries]

Keys(d) == {d.items[i].k : i \in DOMAIN d.items}
Get(d, key) == d.items[CHOOSE i \in DOMAIN d.items : d.items[i].k = key].val

\* Python truthiness of the values the scripts test with `or` / `if`.
Truthy(x) ==
    CASE x.t = "NoneType" -> FALSE
      [] x.t = "str" -> x.v # ""
      [] x.t = "bool" -> x.v = "True"
      [] x.t = "int" -> x.v # "0"
      [] x.t = "float" -> x.v \notin {"0.0", "-0.0"}
      [] OTHER -> x.items # <<>>

----------------------------------------------------------------------------
(* JSON texts the backend can return, and json.loads on them.              *)

ArgsParis == "{\"city\": \"Paris\"}"
ArgsCityInt == "{\"city\": 5}"
ArgsEmpty == "{}"
ArgsExtra == "{\"city\": \"Paris\", \"units\": \"C\"}"
ArgsArray == "[\"Paris\"]"
ArgsMalformed == "{\"city\": "
ArgsApostrophe == "{\"city\": \"L'Aquila\"}"
ArgsNonAscii == "{\"city\": \"Orl\\u00e9ans\"}"

BodyOk == "{\"umbrella\": true, \"rationale\": \"rain\"}"
BodyMissing == "{\"umbrella\": true}"
BodyYes == "{\"umbrella\": \"yes\"}"
BodyCoerce == "{\"umbrella\": \"yes\", \"rationale\": \"rain\"}"
BodyExtra == "{\"umbrella\": true, \"rationale\": \"rain\", \"confidence\": 1}"
BodyBadType == "{\"umbrella\": \"maybe\", \"rationale\": \"rain\"}"
BodyRationaleInt == "{\"umbrella\": false, \"rationale\": 5}"
BodyFloat == "{\"umbrella\": 1.0, \"rationale\": \"rain\"}"
BodyUpper == "{\"umbrella\": \"YES\", \"rationale\": \"rain\"}"
BodyArray == "[true]"
BodyMalformed == "{\"umbrella\": tr"

SoOk == "{\"name\": \"awesome-embeddings\", \"topics\": [\"nlp\"], \"risk_level\": \"low\"}"
SoMissing == "{\"name\": \"awesome-embeddings\", \"topics\": [\"nlp\"]}"
SoTopicsStr == "{\"name\": \"awesome-embeddings\", \"topics\": \"nlp\", \"risk_level\": \"low\"}"
SoMalformed == "{\"name\": \"awesome-emb"

ArgsTexts == {ArgsParis, ArgsCityInt, ArgsEmpty, ArgsExtra, ArgsArray, ArgsMalformed,
              ArgsApostrophe, ArgsNonAscii}
BodyTexts == {BodyOk, BodyMissing, BodyYes, BodyCoerce, BodyExtra, BodyBadType,
              BodyRationaleInt, BodyFloat, BodyUpper, BodyArray, BodyMalformed}
SoTexts == {SoOk, SoMissing, SoTopicsStr, SoMalformed}

\* The texts that are not JSON: json.loads raises json.JSONDecodeError on them.
MalformedTexts == {ArgsMalformed, BodyMalformed, SoMalformed}

\* The Python value json.loads returns for each well-formed text.
JsonValue(raw) ==
    CASE raw = ArgsParis -> Dict(<<Entry("city", Str("Paris"))>>)
      [] raw = ArgsCityInt -> Dict(<<Entry("city", Int("5"))>>)
      [] raw = ArgsEmpty -> Dict(<<>>)
      [] raw = ArgsExtra -> Dict(<<Entry("city", Str("Paris")), Entry("units", Str("C"))>>)
      [] raw = ArgsArray -> List(<<Entry("0", Str("Paris"))>>)
      [] raw = ArgsApostrophe -> Dict(<<Entry("city", Str("L'Aquila"))>>)
      [] raw = ArgsNonAscii -> Dict(<<Entry("city", Str("Orléans"))>>)
      [] raw = BodyOk -> Dict(<<Entry("umbrella", Bool(TRUE)), Entry("rationale", Str("rain"))>>)
      [] raw = BodyMissing -> Dict(<<Entry("umbrella", Bool(TRUE))>>)
      [] raw = BodyYes -> Dict(<<Entry("umbrella", Str("yes"))>>)
      [] raw = BodyCoerce -> Dict(<<Entry("umbrella", Str("yes")), Entry("rationale", Str("rain"))>>)
      [] raw = BodyExtra -> Dict(<<Entry("umbrella", Bool(TRUE)), Entry("rationale", Str("rain")),
                                   Entry("confidence", Int("1"))>>)
      [] raw = BodyBadType -> Dict(<<Entry("umbrella", Str("maybe")), Entry("rationale", Str("rain"))>>)
      [] raw = BodyRationaleInt -> Dict(<<Entry("umbrella", Bool(FALSE)), Entry("rationale", Int("5"))>>)
      [] raw = BodyFloat -> Dict(<<Entry("umbrella", Float("1.0")), Entry("rationale", Str("rain"))>>)
      [] raw = BodyUpper -> Dict(<<Entry("umbrella", Str("YES")), Entry("rationale", Str("rain"))>>)
      [] raw = BodyArray -> List(<<Entry("0", Bool(TRUE))>>)
      [] raw = SoOk -> Dict(<<Entry("name", Str("awesome-embeddings")),
                              Entry("topics", List(<<Entry("0", Str("nlp"))>>)),
                              Entry("risk_level", Str("low"))>>)
      [] raw = SoMissing -> Dict(<<Entry("name", Str("awesome-embeddings")),
                                   Entry("topics", List(<<Entry("0", Str("nlp"))>>))>>)
      [] raw = SoTopicsStr -> Dict(<<Entry("name", Str("awesome-embeddings")),
                                     Entry("topics", Str("nlp")),
                                     Entry("risk_level", Str("low"))>>)
      [] OTHER -> PyNone

\* json.loads(raw): [ok, val]; ok = FALSE stands for json.JSONDecodeError.
json_loads(raw) ==
    IF raw \in MalformedTexts
    THEN [ok |-> FALSE, val |-> PyNone]
    ELSE [ok |-> TRUE, val |-> JsonValue(raw)]

----------------------------------------------------------------------------------------------------------------------------------------
(* Conversions to text: str(x) / repr(x) and json.dumps(x).  A text is a   *)
(* string over printable ASCII, the controls \t \n \r \f and the letters   *)
(* of NonAscii; the conversions read it character by character.            *)

CharAt(s, i) == SubSeq(s, i, i)
Contains(s, c) == \E i \in 1..Len(s) : CharAt(s, i) = c

\* The position of character c in s, 0 when it is not there.
RECURSIVE IndexFrom(_, _, _)
IndexFrom(s, c, i) ==
    IF i > Len(s) THEN 0
    ELSE IF CharAt(s, i) = c THEN i
    ELSE IndexFrom(s, c, i + 1)

\* The non-ASCII letters of the alphabet with their code points (hex).
NonAscii == "àáâäçèéêëíîñóôöúûü"
NonAsciiHex == <<"e0", "e1", "e2", "e4", "e7", "e8", "e9", "ea", "eb",
                 "ed", "ee", "f1", "f3", "f4", "f6", "fa", "fb", "fc">>

\* One character of repr(str) inside the quote character `quote`.
py_repr_char(c, quote) ==
    CASE c = "\\" -> "\\\\"
      [] c = quote -> "\\" \o quote
      [] c = "\n" -> "\\n"
      [] c = "\r" -> "\\r"
      [] c = "\t" -> "\\t"
      [] c = "\f" -> "\\x0c"
      [] OTHER -> c

RECURSIVE py_repr_chars(_, _, _)
py_repr_chars(s, i, quote) ==
    IF i > Len(s) THEN ""
    ELSE py_repr_char(CharAt(s, i), quote) \o py_repr_chars(s, i + 1, quote)

\* repr of a str: double quotes when the text holds ' and no ", single
\* quotes otherwise; backslash, the quote and control characters escaped.
py_repr_str(s) ==
    LET quote == IF Contains(s, "'") /\ ~Contains(s, "\"") THEN "\"" ELSE "'"
    IN  quote \o py_repr_chars(s, 1, quote) \o quote

RECURSIVE py_repr(_)
py_repr_entries(x, i) ==
    LET e == x.items[i]
        sep == IF i = 1 THEN "" ELSE ", "
    IN  IF x.t = "dict"
        THEN sep \o py_repr_str(e.k) \o ": " \o py_repr(e.val)
        ELSE sep \o py_repr(e.val)

RECURSIVE py_repr_from(_, _)
py_repr_from(x, i) ==
    IF i > Len(x.items) THEN "" ELSE py_repr_entries(x, i) \o py_repr_from(x, i + 1)

py_repr(x) ==
    CASE x.t = "str" -> py_repr_str(x.v)
      [] x.t = "dict" -> "{" \o py_repr_from(x, 1) \o "}"
      [] x.t = "list" -> "[" \o py_repr_from(x, 1) \o "]"
      [] OTHER -> x.v

\* str(x): a str is itself, None is "None", everything else is its repr.
py_str(x) == IF x.t = "str" THEN x.v ELSE py_repr(x)

\* One character of a JSON string as json.dumps writes it (ensure_ascii).
json_dumps_char(c) ==
    CASE c = "\"" -> "\\\""
      [] c = "\\" -> "\\\\"
      [] c = "\n" -> "\\n"
      [] c = "\r" -> "\\r"
      [] c = "\t" -> "\\t"
      [] c = "\f" -> "\\f"
      [] Contains(NonAscii, c) -> "\\u00" \o NonAsciiHex[IndexFrom(NonAscii, c, 1)]
      [] OTHER -> c

RECURSIVE json_dumps_chars(_, _)
json_dumps_chars(s, i) ==
    IF i > Len(s) THEN ""
    ELSE json_dumps_char(CharAt(s, i)) \o json_dumps_chars(s, i + 1)

json_dumps_str(s) == "\"" \o json_dumps_chars(s, 1) \o "\""

RECURSIVE json_dumps(_)
RECURSIVE json_dumps_from(_, _)
json_dumps_from(x, i) ==
    IF i > Len(x.items) THEN ""
    ELSE LET e == x.items[i]
             sep == IF i = 1 THEN "" ELSE ", "
             one == IF x.t = "dict"
                    THEN json_dumps_str(e.k) \o ": " \o json_dumps(e.val)
                    ELSE json_dumps(e.val)
         IN  sep \o one \o json_dumps_from(x, i + 1)

json_dumps(x) ==
    CASE x.t = "str" -> json_dumps_str(x.v)
      [] x.t = "bool" -> IF x.v = "True" THEN "true" ELSE "false"
      [] x.t = "NoneType" -> "null"
      [] x.t = "dict" -> "{" \o json_dumps_from(x, 1) \o "}"
      [] x.t = "list" -> "[" \o json_dumps_from(x, 1) \o "]"
      [] OTHER -> x.v

----------------
(* The tool and the tool registry.                                         *)

\* tools = [{... "name": "get_weather" ...}]: the names of the registered tools.
tools == {"get_weather"}

\* get_weather(**args) binds: args is a mapping with exactly the keyword
\* `city`; anything else raises TypeError at the call.  The annotation
\* `city: str` is not enforced by Python.
CallBinds(args) == args.t = "dict" /\ Keys(args) = {"city"}

get_weather(city) ==
    Dict(<<Entry("city", city), Entry("temp_c", Int("17")), Entry("condition", Str("rain"))>>)

----------------------------------------------------------------------------
(* The pydantic models.  Validation is pydantic's default (lax) mode:      *)
(* fields are looked up by name, unknown fields are ignored, and a bool    *)
(* field accepts the ints 0/1, the floats 0.0/1.0 and the strings pydantic *)
(* reads as booleans.                                                      *)

BoolTrueStrs == {"1", "on", "t", "true", "y", "yes"}
BoolFalseStrs == {"0", "off", "f", "false", "n", "no"}

AsciiUpper == "ABCDEFGHIJKLMNOPQRSTUVWXYZ"
AsciiLower == "abcdefghijklmnopqrstuvwxyz"

\* s with its ASCII capitals in lower case: the strings of a bool field are
\* compared without regard to ASCII case.
RECURSIVE ascii_lower(_, _)
ascii_lower(s, i) ==
    IF i > Len(s) THEN ""
    ELSE (IF Contains(AsciiUpper, CharAt(s, i))
          THEN CharAt(AsciiLower, IndexFrom(AsciiUpper, CharAt(s, i), 1))
          ELSE CharAt(s, i)) \o ascii_lower(s, i + 1)

\* Validation of one `bool` field: [ok, val].
BoolField(x) ==
    CASE x.t = "bool" -> [ok |-> TRUE, val |-> x]
      [] x.t = "int" /\ x.v \in {"0", "1"} -> [ok |-> TRUE, val |-> Bool(x.v = "1")]
      [] x.t = "float" /\ x.v \in {"0.0", "-0.0", "1.0"} -> [ok |-> TRUE, val |-> Bool(x.v = "1.0")]
      [] x.t = "str" /\ ascii_lower(x.v, 1) \in BoolTrueStrs -> [ok |-> TRUE, val |-> Bool(TRUE)]
      [] x.t = "str" /\ ascii_lower(x.v, 1) \in BoolFalseStrs -> [ok |-> TRUE, val |-> Bool(FALSE)]
      [] OTHER -> [ok |-> FALSE, val |-> PyNone]

\* Validation of one `str` field: only a str is accepted.
StrField(x) == [ok |-> x.t = "str", val |-> x]

\* Validation of one `list[str]` field.
StrListField(x) ==
    [ok |-> x.t = "list" /\ \A i \in DOMAIN x.items : x.items[i].val.t = "str", val |-> x]

\* PackAdvice.model_validate(data) followed by model_dump(): [ok, val];
\* ok = FALSE stands for pydantic.ValidationError.
PackAdvice_model_validate(data) ==
    IF data.t = "dict" /\ {"umbrella", "rationale"} \subseteq Keys(data)
          /\ BoolField(Get(data, "umbrella")).ok /\ StrField(Get(data, "rationale")).ok
    THEN [ok |-> TRUE,
          val |-> Dict(<<Entry("umbrella", BoolField(Get(data, "umbrella")).val),
                         Entry("rationale", Get(data, "rationale"))>>)]
    ELSE [ok |-> FALSE, val |-> PyNone]

\* The SDK's parse of a text output against text_format=PackAdvice
\* (PackAdvice.model_validate_json): malformed text is a ValidationError too.
PackAdvice_model_validate_json(raw) ==
    IF json_loads(raw).ok
    THEN PackAdvice_model_validate(json_loads(raw).val)
    ELSE [ok |-> FALSE, val |-> PyNone]

\* RepoSummary.model_validate_json(raw) followed by model_dump().
RepoSummary_model_validate_json(raw) ==
    LET data == json_loads(raw).val
    IN  IF json_loads(raw).ok /\ data.t = "dict"
              /\ {"name", "topics", "risk_level"} \subseteq Keys(data)
              /\ StrField(Get(data, "name")).ok /\ StrListField(Get(data, "topics")).ok
              /\ StrField(Get(data, "risk_level")).ok
        THEN [ok |-> TRUE,
              val |-> Dict(<<Entry("name", Get(data, "name")),
                             Entry("topics", Get(data, "topics")),
                             Entry("risk_level", Get(data, "risk_level"))>>)]
        ELSE [ok |-> FALSE, val |-> PyNone]

----------------------------------------------------------------------------
(* The backend: what it answers to the turn-1 request, in which shape the  *)
(* responses API delivers a function call, what it answers to the turn-2   *)
(* request, and what it answers to the single request of the *_so scripts. *)

VARIABLES
    program,          \* which scripts run: "multi" (cc_multi and responses_multi) or "so"
    backend,          \* the backend's behaviour in this run
    messages,         \* cc_multi: messages
    cc_raw,           \* cc_multi: raw
    cc_log,           \* cc_multi: backend requests issued and tools executed, in order
    cc_out,           \* cc_multi: what the script printed, or the exception that ended it
    cc_pc,            \* cc_multi: position in the script
    rs_weather,       \* responses_multi: weather
    rs_tool_call_id,  \* responses_multi: tool_call_id
    rs_advice,        \* responses_multi: advice
    rs_log,           \* responses_multi: backend requests issued and tools executed
    rs_out,           \* responses_multi: printed result or exception
    rs_pc,            \* responses_multi: position in the script
    ccso_out,         \* cc_so: printed result or exception
    ccso_pc,          \* cc_so: position in the script
    rsso_summary,     \* responses_so: summary
    rsso_out,         \* responses_so: printed result or exception
    rsso_pc           \* responses_so: position in the script

cc_vars == <<messages, cc_raw, cc_log, cc_out, cc_pc>>
rs_vars == <<rs_weather, rs_tool_call_id, rs_advice, rs_log, rs_out, rs_pc>>
ccso_vars == <<ccso_out, ccso_pc>>
rsso_vars == <<rsso_summary, rsso_out, rsso_pc>>
vars == <<program, backend, cc_vars, rs_vars, ccso_vars, rsso_vars>>

Digits == <<"1", "2", "3", "4", "5", "6", "7", "8", "9">>
CallId(i) == "call_" \o Digits[i]
ItemId(i) == "fc_" \o Digits[i]

\* The first tool call of a turn-1 response: the registered tool with each
\* arguments text, or a tool that is not registered.
FirstCalls ==
    {[name |-> "get_weather", arguments |-> a] : a \in ArgsTexts}
        \cup {[name |-> "get_time", arguments |-> ArgsParis]}

\* n tool calls with distinct ids; the calls after the first are well-formed
\* get_weather calls.
CallsOf(first, n) ==
    [i \in 1..n |-> [id |-> CallId(i),
                     name |-> IF i = 1 THEN first.name ELSE "get_weather",
                     arguments |-> IF i = 1 THEN first.arguments ELSE ArgsParis]]

AnswerText == "It is raining in Paris."

Turn1s ==
    {[kind |-> "error", text |-> "", calls |-> <<>>],
     [kind |-> "answer", text |-> AnswerText, calls |-> <<>>]}
        \cup {[kind |-> "calls", text |-> "", calls |-> CallsOf(first, n)] :
                 first \in FirstCalls, n \in 1..MaxCalls}

\* How the responses API delivers a function call: its arguments as a JSON
\* string or as a dict, and which of the identifiers call_id / id it carries.
IdShapes == {"both", "call_id", "id", "none"}
DefaultWire == [args_as_dict |-> FALSE, id_shape |-> "both"]
WiresOf(t1) ==
    IF t1.kind # "calls" THEN {DefaultWire}
    ELSE {w \in [args_as_dict : BOOLEAN, id_shape : IdShapes] :
             w.args_as_dict => /\ json_loads(t1.calls[1].arguments).ok
                               /\ json_loads(t1.calls[1].arguments).val.t = "dict"}

Turn2s ==
    {[kind |-> "error", body |-> ""]} \cup {[kind |-> "body", body |-> b] : b \in BodyTexts}

SoReplies ==
    {[kind |-> "error", body |-> ""]} \cup {[kind |-> "body", body |-> b] : b \in SoTexts}

NoReply == [kind |-> "none", body |-> ""]

\* The behaviours of the backend towards the two multi-turn scripts.
MultiBackends ==
    UNION {{[t1 |-> t1, wire |-> w, t2 |-> t2, so |-> NoReply] :
               w \in WiresOf(t1), t2 \in Turn2s} : t1 \in Turn1s}

\* The behaviours of the backend towards the two single-request scripts.
SoBackends ==
    {[t1 |-> [kind |-> "none", text |-> "", calls |-> <<>>], wire |-> DefaultWire,
      t2 |-> NoReply, so |-> r] : r \in SoReplies}

----------------------------------------------------------------------------
(* Rendering of the turn-1 response in the two API shapes.                 *)

Message(role, content, tool_calls, tool_call_id, name) ==
    [role |-> role, content |-> content, tool_calls |-> tool_calls,
     tool_call_id |-> tool_call_id, name |-> name]

UserMessage(text) == Message("user", Str(text), <<>>, PyNone, PyNone)

Question1 == "What's the weather in Paris today?"
Question2 == "Great, should I pack an umbrella? Return JSON only."

\* resp1.choices[0].message of the chat completions API.
ChatAssistantMessage(t1) ==
    Message("assistant",
            IF t1.kind = "answer" THEN Str(t1.text) ELSE PyNone,
            t1.calls, PyNone, PyNone)

Item(type, name, arguments, call_id, id, text) ==
    [type |-> type, name |-> name, arguments |-> arguments,
     call_id |-> call_id, id |-> id, text |-> text]

\* One function_call item of resp1.output; an identifier the item does not
\* carry reads as None through getattr(fc, ..., None).
FunctionCallItem(call, i, wire) ==
    Item("function_call", call.name,
         IF wire.args_as_dict THEN json_loads(call.arguments).val ELSE Str(call.arguments),
         IF wire.id_shape \in {"both", "call_id"} THEN Str(call.id) ELSE PyNone,
         IF wire.id_shape \in {"both", "id"} THEN Str(ItemId(i)) ELSE PyNone,
         "")

\* resp1.output of the responses API: a reasoning item, then the function
\* calls or the assistant's message.
ResponsesOutput(t1, wire) ==
    <<Item("reasoning", "", PyNone, PyNone, Str("rs_1"), "")>>
        \o (IF t1.kind = "answer"
            THEN <<Item("message", "", PyNone, PyNone, Str("msg_1"), t1.text)>>
            ELSE [i \in DOMAIN t1.calls |-> FunctionCallItem(t1.calls[i], i, wire)])

----------------------------------------------------------------------------
(* What a script leaves behind: the value it printed (Answer, Structured), *)
(* the error message it printed from its except clause (Error), or the     *)
(* exception that ended it with a traceback (Fault).                       *)

Out(kind, err, val) == [kind |-> kind, err |-> err, val |-> val]
NoOut == Out("none", "", PyNone)
Fault(err) == Out("Fault", err, PyNone)

RequestEvent(n, input, format) ==
    [ev |-> "request", n |-> n, input |-> input, format |-> format,
     tool |-> "", args |-> PyNone]
ToolEvent(name, args) ==
    [ev |-> "tool", n |-> 0, input |-> <<>>, format |-> "",
     tool |-> name, args |-> args]

Init ==
    /\ program \in {"multi", "so"}
    /\ backend \in (IF program = "multi" THEN MultiBackends ELSE SoBackends)
    /\ messages = <<UserMessage(Question1)>>
    /\ cc_raw = PyNone
    /\ cc_log = <<>>
    /\ cc_out = NoOut
    /\ cc_pc = IF program = "multi" THEN "turn1" ELSE "off"
    /\ rs_weather = PyNone
    /\ rs_tool_call_id = PyNone
    /\ rs_advice = PyNone
    /\ rs_log = <<>>
    /\ rs_out = NoOut
    /\ rs_pc = IF program = "multi" THEN "turn1" ELSE "off"
    /\ ccso_out = NoOut
    /\ ccso_pc = IF program = "so" THEN "request" ELSE "off"
    /\ rsso_summary = PyNone
    /\ rsso_out = NoOut
    /\ rsso_pc = IF program = "so" THEN "request" ELSE "off"

----------------------------------------------------------------------------
(* cc_multi.py                                                             *)

\* assistant_msg: the message appended after turn 1.
assistant_msg == messages[2]

\* The tool message appended for a call and its result.
CCToolMessage(call, result) ==
    Message("tool", Str(py_str(result)), <<>>, Str(call.id), Str("get_weather"))

\* resp1 = client.chat.completions.create(...); messages.append(assistant_msg)
CCTurn1 ==
    /\ cc_pc = "turn1"
    /\ cc_log' = Append(cc_log, RequestEvent(1, messages, "text"))
    /\ IF backend.t1.kind = "error"
       THEN /\ cc_out' = Fault("APIError")
            /\ cc_pc' = "done"
            /\ UNCHANGED messages
       ELSE /\ messages' = Append(messages, ChatAssistantMessage(backend.t1))
            /\ cc_pc' = "branch"
            /\ UNCHANGED cc_out
    /\ UNCHANGED <<program, backend, cc_raw, rs_vars, ccso_vars, rsso_vars>>

\* if assistant_msg.tool_calls: parse the arguments of the first call, run
\* get_weather, append the tool message.
CCToolCall ==
    /\ cc_pc = "branch"
    /\ assistant_msg.tool_calls # <<>>
    /\ LET call == assistant_msg.tool_calls[1]
           parsed == json_loads(call.arguments)
           args == parsed.val
       IN  IF ~parsed.ok
           THEN /\ cc_out' = Fault("JSONDecodeError")
                /\ cc_pc' = "done"
                /\ UNCHANGED <<messages, cc_log>>
           ELSE IF ~CallBinds(args)
           THEN /\ cc_out' = Fault("TypeError")
                /\ cc_pc' = "done"
                /\ UNCHANGED <<messages, cc_log>>
           ELSE /\ cc_log' = Append(cc_log, ToolEvent("get_weather", args))
                /\ messages' = Append(messages,
                                      CCToolMessage(call, get_weather(Get(args, "city"))))
                /\ cc_pc' = "turn2"
                /\ UNCHANGED cc_out
    /\ UNCHANGED <<program, backend, cc_raw, rs_vars, ccso_vars, rsso_vars>>

\* assistant_msg.tool_calls is empty or None: the if body is skipped.
CCNoToolCall ==
    /\ cc_pc = "branch"
    /\ assistant_msg.tool_calls = <<>>
    /\ cc_pc' = "turn2"
    /\ UNCHANGED <<program, backend, messages, cc_raw, cc_log, cc_out,
                   rs_vars, ccso_vars, rsso_vars>>

\* messages.append(user turn); resp2 = client.chat.completions.create(...,
\* response_format={"type": "json_object"}); raw = resp2...content
CCTurn2 ==
    /\ cc_pc = "turn2"
    /\ messages' = Append(messages, UserMessage(Question2))
    /\ cc_log' = Append(cc_log, RequestEvent(2, messages', "json_object"))
    /\ IF backend.t2.kind = "error"
       THEN /\ cc_out' = Fault("APIError")
            /\ cc_pc' = "done"
            /\ UNCHANGED cc_raw
       ELSE /\ cc_raw' = Str(backend.t2.body)
            /\ cc_pc' = "validate"
            /\ UNCHANGED cc_out
    /\ UNCHANGED <<program, backend, rs_vars, ccso_vars, rsso_vars>>

\* The outcome of the try block: json.loads, PackAdvice.model_validate,
\* print(advice.model_dump()), or the except clause's message.
CCValidated(raw) ==
    IF ~json_loads(raw.v).ok
    THEN Out("Error", "JSONDecodeError", PyNone)
    ELSE IF ~PackAdvice_model_validate(json_loads(raw.v).val).ok
    THEN Out("Error", "ValidationError", PyNone)
    ELSE Out("Structured", "", PackAdvice_model_validate(json_loads(raw.v).val).val)

\* CCValidate with the except clause reprompting: after a rejected body the
\* script goes back to the turn-2 request instead of ending.
CCValidateReprompts ==
    /\ cc_pc = "validate"
    /\ cc_out' = CCValidated(cc_raw)
    /\ cc_pc' = IF CCValidated(cc_raw).kind = "Error" THEN "turn2" ELSE "done"
    /\ UNCHANGED <<program, backend, messages, cc_raw, cc_log,
                   rs_vars, ccso_vars, rsso_vars>>

CCValidate ==
    /\ cc_pc = "validate"
    /\ cc_out' = CCValidated(cc_raw)
    /\ cc_pc' = "done"
    /\ UNCHANGED <<program, backend, messages, cc_raw, cc_log,
                   rs_vars, ccso_vars, rsso_vars>>

----------------------------------------------------------------------------
(* responses_multi.py                                                      *)

IsFunctionCall(o) == o.type \in {"function_call", "tool_call"}

\* func_calls = [o for o in resp1.output if o.type in ("function_call", "tool_call")]
func_calls == SelectSeq(ResponsesOutput(backend.t1, backend.wire), IsFunctionCall)

RECURSIVE ConcatText(_, _)
ConcatText(output, i) ==
    IF i > Len(output) THEN ""
    ELSE (IF output[i].type = "message" THEN output[i].text ELSE "")
             \o ConcatText(output, i + 1)

\* resp1.output_text: the text of the message items of the output.
output_text == ConcatText(ResponsesOutput(backend.t1, backend.wire), 1)

\* tool_call_id = getattr(fc, "call_id", None) or getattr(fc, "id", None)
ToolCallIdOf(fc) == IF Truthy(fc.call_id) THEN fc.call_id ELSE fc.id

\* The input of the turn-2 request: the tool result as assistant text, then
\* the new user turn.
RSTurn2Input(tool_call_id, weather) ==
    <<Message("assistant",
              Str("get_weather result (tool_call_id=" \o py_str(tool_call_id)
                      \o "): " \o json_dumps(weather)),
              <<>>, PyNone, PyNone),
      UserMessage(Question2)>>

\* resp1 = client.responses.create(...)
RSTurn1 ==
    /\ rs_pc = "turn1"
    /\ rs_log' = Append(rs_log, RequestEvent(1, <<UserMessage(Question1)>>, "text"))
    /\ IF backend.t1.kind = "error"
       THEN /\ rs_out' = Fault("APIError")
            /\ rs_pc' = "done"
       ELSE /\ rs_pc' = "branch"
            /\ UNCHANGED rs_out
    /\ UNCHANGED <<program, backend, rs_weather, rs_tool_call_id, rs_advice,
                   cc_vars, ccso_vars, rsso_vars>>

\* if not func_calls: print(resp1.output_text)
RSDirect ==
    /\ rs_pc = "branch"
    /\ func_calls = <<>>
    /\ rs_out' = Out("Answer", "", Str(output_text))
    /\ rs_pc' = "done"
    /\ UNCHANGED <<program, backend, rs_weather, rs_tool_call_id, rs_advice, rs_log,
                   cc_vars, ccso_vars, rsso_vars>>

\* else: fc = func_calls[0]; args; weather = get_weather(**args); tool_call_id
RSToolCall ==
    /\ rs_pc = "branch"
    /\ func_calls # <<>>
    /\ LET fc == func_calls[1]
           fc_args == fc.arguments
           parsed == IF fc_args.t = "dict"
                     THEN [ok |-> TRUE, val |-> fc_args]
                     ELSE json_loads(fc_args.v)
           args == parsed.val
       IN  IF ~parsed.ok
           THEN /\ rs_out' = Fault("JSONDecodeError")
                /\ rs_pc' = "done"
                /\ UNCHANGED <<rs_weather, rs_tool_call_id, rs_log>>
           ELSE IF ~CallBinds(args)
           THEN /\ rs_out' = Fault("TypeError")
                /\ rs_pc' = "done"
                /\ UNCHANGED <<rs_weather, rs_tool_call_id, rs_log>>
           ELSE /\ rs_log' = Append(rs_log, ToolEvent("get_weather", args))
                /\ rs_weather' = get_weather(Get(args, "city"))
                /\ rs_tool_call_id' = ToolCallIdOf(fc)
                /\ rs_pc' = "turn2"
                /\ UNCHANGED rs_out
    /\ UNCHANGED <<program, backend, rs_advice, cc_vars, ccso_vars, rsso_vars>>

\* resp2 = client.responses.parse(..., text_format=PackAdvice): the SDK
\* validates the output text against PackAdvice and raises on a mismatch.
RSTurn2 ==
    /\ rs_pc = "turn2"
    /\ rs_log' = Append(rs_log,
                        RequestEvent(2, RSTurn2Input(rs_tool_call_id, rs_weather), "PackAdvice"))
    /\ IF backend.t2.kind = "error"
       THEN /\ rs_out' = Fault("APIError")
            /\ rs_pc' = "done"
            /\ UNCHANGED rs_advice
       ELSE IF ~PackAdvice_model_validate_json(backend.t2.body).ok
       THEN /\ rs_out' = Fault("ValidationError")
            /\ rs_pc' = "done"
            /\ UNCHANGED rs_advice
       ELSE /\ rs_advice' = PackAdvice_model_validate_json(backend.t2.body).val
            /\ rs_pc' = "print"
            /\ UNCHANGED rs_out
    /\ UNCHANGED <<program, backend, rs_weather, rs_tool_call_id,
                   cc_vars, ccso_vars, rsso_vars>>

\* advice = resp2.output_parsed; print(advice.model_dump())
RSPrint ==
    /\ rs_pc = "print"
    /\ rs_out' = Out("Structured", "", rs_advice)
    /\ rs_pc' = "done"
    /\ UNCHANGED <<program, backend, rs_weather, rs_tool_call_id, rs_advice, rs_log,
                   cc_vars, ccso_vars, rsso_vars>>

----------------------------------------------------------------------------
(* cc_so.py and responses_so.py                                            *)

\* completion = client.chat.completions.create(..., response_format=json_schema)
CCSoRequest ==
    /\ ccso_pc = "request"
    /\ IF backend.so.kind = "error"
       THEN /\ ccso_out' = Fault("APIError")
            /\ ccso_pc' = "done"
       ELSE /\ ccso_pc' = "parse"
            /\ UNCHANGED ccso_out
    /\ UNCHANGED <<program, backend, cc_vars, rs_vars, rsso_vars>>

\* parsed = RepoSummary.model_validate_json(content); print(parsed.model_dump())
CCSoParse ==
    /\ ccso_pc = "parse"
    /\ ccso_out' = IF RepoSummary_model_validate_json(backend.so.body).ok
                   THEN Out("Structured", "", RepoSummary_model_validate_json(backend.so.body).val)
                   ELSE Fault("ValidationError")
    /\ ccso_pc' = "done"
    /\ UNCHANGED <<program, backend, cc_vars, rs_vars, rsso_vars>>

\* resp = client.responses.parse(..., text_format=RepoSummary)
RSSoParse ==
    /\ rsso_pc = "request"
    /\ IF backend.so.kind = "error"
       THEN /\ rsso_out' = Fault("APIError")
            /\ rsso_pc' = "done"
            /\ UNCHANGED rsso_summary
       ELSE IF ~RepoSummary_model_validate_json(backend.so.body).ok
       THEN /\ rsso_out' = Fault("ValidationError")
            /\ rsso_pc' = "done"
            /\ UNCHANGED rsso_summary
       ELSE /\ rsso_summary' = RepoSummary_model_validate_json(backend.so.body).val
            /\ rsso_pc' = "print"
            /\ UNCHANGED rsso_out
    /\ UNCHANGED <<program, backend, cc_vars, rs_vars, ccso_vars>>

\* summary = resp.output_parsed; print(summary.model_dump())
RSSoPrint ==
    /\ rsso_pc = "print"
    /\ rsso_out' = Out("Structured", "", rsso_summary)
    /\ rsso_pc' = "done"
    /\ UNCHANGED <<program, backend, cc_vars, rs_vars, ccso_vars, rsso_summary>>

----------------------------------------------------------------------------

Next ==
    \/ CCTurn1
    \/ CCToolCall
    \/ CCNoToolCall
    \/ CCTurn2
    \/ CCValidate
    \/ RSTurn1
    \/ RSDirect
    \/ RSToolCall
    \/ RSTurn2
    \/ RSPrint
    \/ CCSoRequest
    \/ CCSoParse
    \/ RSSoParse
    \/ RSSoPrint

Spec == Init /\ [][Next]_vars

\* Every script is a sequential program whose statements all execute, and
\* every backend call returns or raises (the client has a request timeout).
FairSpec == Spec /\ WF_vars(Next)

----------------------------------------------------------------------------
(* Vocabulary of the properties.                                           *)

\* The indices of the turn-n backend requests and of the tool executions in a log.
Requests(log, n) == {i \in DOMAIN log : log[i].ev = "request" /\ log[i].n = n}
ToolRuns(log) == {i \in DOMAIN log : log[i].ev = "tool"}
EventKinds(log) == [i \in DOMAIN log |-> log[i].ev]

\* The error outcomes of the specification: the script reports the error
\* itself (kind Error) with the exception that names its kind.
IsSchemaMismatch(out) == out.kind = "Error" /\ out.err = "ValidationError"
IsJsonDecodeError(out) == out.kind = "Error" /\ out.err = "JSONDecodeError"

\* data has the declared fields of PackAdvice with the declared JSON types
\* (umbrella a boolean, rationale a string); further fields may be present.
HasPackAdviceFields(data) ==
    /\ data.t = "dict"
    /\ {"umbrella", "rationale"} \subseteq Keys(data)
    /\ Get(data, "umbrella").t = "bool"
    /\ Get(data, "rationale").t = "str"

\* data matches PackAdvice exactly: the declared fields and no others.
IsExactPackAdvice(data) ==
    HasPackAdviceFields(data) /\ Keys(data) = {"umbrella", "rationale"}

\* args satisfies the parameter schema of get_weather: an object whose
\* required property `city` is a string.
SatisfiesToolSpec(args) ==
    args.t = "dict" /\ "city" \in Keys(args) /\ Get(args, "city").t = "str"

\* The turn-2 body reached cc_multi's validation and the script has ended.
CCValidatedBody == cc_pc = "done" /\ cc_raw # PyNone

\* C1: in cc_multi (weak JSON mode) a turn-2 body that is valid JSON but does
\* not have the fields and types of PackAdvice ends in the reported error
\* SchemaMismatch, never in a Structured result.
C1_NonConformingIsSchemaMismatch ==
    (/\ CCValidatedBody
     /\ json_loads(cc_raw.v).ok
     /\ ~HasPackAdviceFields(json_loads(cc_raw.v).val))
        => IsSchemaMismatch(cc_out)

\* The scripts that have parsed a malformed JSON text, with their outcomes:
\* tool-call arguments in the two multi-turn scripts, the final output in all four.
ParsedMalformed ==
    {o \in {cc_out, rs_out} :
        /\ o.kind # "none"
        /\ o.err # "APIError"
        /\ backend.t1.kind = "calls"
        /\ backend.t1.calls[1].arguments \in MalformedTexts}
    \cup {o \in {cc_out} : CCValidatedBody /\ cc_raw.v \in MalformedTexts}
    \cup {o \in {rs_out} : /\ rs_pc = "done"
                           /\ Requests(rs_log, 2) # {}
                           /\ backend.t2.body \in MalformedTexts}
    \cup {o \in {ccso_out, rsso_out} : o.kind # "none" /\ backend.so.body \in MalformedTexts}

\* C2: wherever a script parses a malformed JSON text (tool-call arguments
\* or final output, weak or strict mode) it ends with the reported error
\* JsonDecodeError and not with an unhandled exception.
C2_MalformedIsJsonDecodeError ==
    \A o \in ParsedMalformed : IsJsonDecodeError(o)

\* C3: the arguments of a tool call are validated against the parameter
\* schema of get_weather before the tool runs: the tool only ever runs with
\* arguments that satisfy the schema, a call with invalid arguments ends in
\* SchemaMismatch, and a call with valid arguments runs the tool with exactly
\* the arguments the backend supplied.
C3_ToolArgumentsValidated ==
    \A s \in {[log |-> cc_log, out |-> cc_out], [log |-> rs_log, out |-> rs_out]} :
        /\ \A i \in ToolRuns(s.log) : SatisfiesToolSpec(s.log[i].args)
        /\ (/\ s.out.kind # "none"
            /\ backend.t1.kind = "calls"
            /\ json_loads(backend.t1.calls[1].arguments).ok)
              => IF SatisfiesToolSpec(json_loads(backend.t1.calls[1].arguments).val)
                 THEN /\ ToolRuns(s.log) # {}
                      /\ \A i \in ToolRuns(s.log) :
                            s.log[i].args = json_loads(backend.t1.calls[1].arguments).val
                 ELSE IsSchemaMismatch(s.out)

\* The identifier of the first function call as the responses API names it:
\* call_id, or id where call_id is absent.
OriginatingIds ==
    {x \in {func_calls[1].call_id, func_calls[1].id} : x # PyNone}

\* C4: every tool result in a turn-2 request carries the id of the call that
\* produced it: in cc_multi the tool message's tool_call_id is the call's id,
\* in responses_multi the id written into the tool-result text is the call's
\* call_id (or id), and it is never None.
C4_ToolResultCarriesCallId ==
    /\ \A i \in Requests(cc_log, 2) : \A j \in DOMAIN cc_log[i].input :
          cc_log[i].input[j].role = "tool"
              => cc_log[i].input[j].tool_call_id = Str(backend.t1.calls[1].id)
    /\ \A i \in Requests(rs_log, 2) :
          \E id \in OriginatingIds :
              /\ rs_tool_call_id = id
              /\ rs_log[i].input[1].content =
                    Str("get_weather result (tool_call_id=" \o id.v \o "): "
                            \o json_dumps(rs_weather))

\* C5: when the turn-1 response carries no tool call, the exchange returns
\* that response's text as Answer: no tool runs, no tool-result turn is
\* built and no second backend request is issued.
C5_DirectAnswerNoRoundTrip ==
    backend.t1.kind = "answer"
        => /\ ToolRuns(cc_log) = {} /\ ToolRuns(rs_log) = {}
           /\ Requests(cc_log, 2) = {} /\ Requests(rs_log, 2) = {}
           /\ \A j \in DOMAIN messages : messages[j].role # "tool"
           /\ cc_pc = "done" => cc_out = Out("Answer", "", Str(backend.t1.text))
           /\ rs_pc = "done" => rs_out = Out("Answer", "", Str(backend.t1.text))

\* C6: a Structured result is the parsed backend object itself and matches
\* PackAdvice exactly; a parsed object with an extra, missing or mistyped
\* field is rejected with SchemaMismatch, not coerced, trimmed or defaulted.
C6_StructuredMatchesSchemaExactly ==
    (CCValidatedBody /\ json_loads(cc_raw.v).ok)
        => IF IsExactPackAdvice(json_loads(cc_raw.v).val)
           THEN cc_out = Out("Structured", "", json_loads(cc_raw.v).val)
           ELSE IsSchemaMismatch(cc_out)

\* The phase of an exchange in the specification's state machine, read off
\* the script's position; a script that has printed its result is Answered,
\* one that has printed an error or ended with an exception is Failed.
PhaseOf(pc, out, requested, executed) ==
    CASE out.kind \in {"Answer", "Structured"} -> "Answered"
      [] out.kind \in {"Error", "Fault"} -> "Failed"
      [] pc = "branch" /\ requested -> "ToolRequested"
      [] pc = "turn2" /\ executed -> "ToolExecuted"
      [] OTHER -> "AwaitingModel"

CCPhase == PhaseOf(cc_pc, cc_out, assistant_msg.tool_calls # <<>>, ToolRuns(cc_log) # {})
RSPhase == PhaseOf(rs_pc, rs_out, func_calls # <<>>, ToolRuns(rs_log) # {})

\* AwaitingModel -> {ToolRequested -> ToolExecuted -> AwaitingModel} -> Answered | Failed
PhaseSteps ==
    {<<"AwaitingModel", "AwaitingModel">>, <<"AwaitingModel", "ToolRequested">>,
     <<"ToolRequested", "ToolExecuted">>, <<"ToolExecuted", "AwaitingModel">>,
     <<"AwaitingModel", "Answered">>, <<"AwaitingModel", "Failed">>,
     <<"ToolRequested", "Failed">>, <<"ToolExecuted", "Failed">>}

\* In a log the turn-1 request comes first, the turn-2 request last, the
\* tool executions in between; a requested tool has run before turn 2.
OrderedLog(log, requested) ==
    /\ log # <<>> => log[1].ev = "request" /\ log[1].n = 1
    /\ Cardinality(Requests(log, 1)) <= 1 /\ Cardinality(Requests(log, 2)) <= 1
    /\ \A i \in Requests(log, 2) :
          /\ i = Len(log)
          /\ \A j \in 2..(i - 1) : log[j].ev = "tool"
          /\ requested => ToolRuns(log) # {}

C7_Sequential ==
    program = "multi"
        => /\ OrderedLog(cc_log, cc_pc # "turn1" /\ Len(messages) >= 2
                                     /\ assistant_msg.tool_calls # <<>>)
           /\ OrderedLog(rs_log, func_calls # <<>>)

C7_Step ==
    program = "multi"
        => /\ CCPhase' # CCPhase => <<CCPhase, CCPhase'>> \in PhaseSteps
           /\ RSPhase' # RSPhase => <<RSPhase, RSPhase'>> \in PhaseSteps
           /\ CCPhase \in {"Answered", "Failed"} => UNCHANGED <<cc_log, cc_out, messages>>
           /\ RSPhase \in {"Answered", "Failed"} => UNCHANGED <<rs_log, rs_out>>

C7_Terminated ==
    program = "multi"
        => CCPhase \in {"Answered", "Failed"} /\ RSPhase \in {"Answered", "Failed"}

\* C7: each multi-step exchange moves through AwaitingModel, ToolRequested,
\* ToolExecuted and back, and ends Answered or Failed: every run eventually
\* ends, turn 2 is requested only after turn 1 was answered and the requested
\* tool has run, and nothing is requested or executed after the end.
C7_StateMachine ==
    /\ []C7_Sequential
    /\ [][C7_Step]_vars
    /\ <>C7_Terminated

\* Both scripts went through a tool round trip and a second request and ended.
C7_Witness ==
    /\ CCPhase = "Answered" /\ RSPhase = "Answered"
    /\ EventKinds(cc_log) = <<"request", "tool", "request">>
    /\ EventKinds(rs_log) = <<"request", "tool", "request">>

\* Answer, Structured or Error: a printed error and an exception are both Error.
OutcomeKind(out) == IF out.kind \in {"Error", "Fault"} THEN "Error" ELSE out.kind

\* C8: run against the same backend behaviour, cc_multi (full history) and
\* responses_multi (incremental context) perform the same sequence of
\* backend requests and tool executions and end in the same kind of outcome.
C8_StrategiesInterchangeable ==
    (cc_pc = "done" /\ rs_pc = "done")
        => /\ EventKinds(cc_log) = EventKinds(rs_log)
           /\ OutcomeKind(cc_out) = OutcomeKind(rs_out)

\* C9: the tool that runs, and the name on the tool-result turn, is the tool
\* the backend's call names, and that tool is registered.
C9_InvocationReferencesRegisteredTool ==
    /\ \A log \in {cc_log, rs_log} : \A i \in ToolRuns(log) :
          /\ log[i].tool = backend.t1.calls[1].name
          /\ backend.t1.calls[1].name \in tools
    /\ \A j \in DOMAIN messages :
          messages[j].role = "tool" => messages[j].name = Str(backend.t1.calls[1].name)

\* C10: the history of cc_multi's second request extends the history of the
\* first by appends, in the order user, assistant, tool results, user, and
\* holds exactly one tool result for every tool call of the assistant message.
C10_HistoryAppendOnlyAndComplete ==
    \A i \in Requests(cc_log, 2) :
        LET input == cc_log[i].input
            first == cc_log[1].input
        IN  /\ Len(input) >= Len(first) + 2
            /\ SubSeq(input, 1, Len(first)) = first
            /\ input[1].role = "user"
            /\ input[2].role = "assistant"
            /\ input[Len(input)].role = "user"
            /\ \A j \in 3..(Len(input) - 1) : input[j].role = "tool"
            /\ \A c \in DOMAIN input[2].tool_calls :
                  Cardinality({j \in DOMAIN input :
                                  /\ input[j].role = "tool"
                                  /\ input[j].tool_call_id = Str(input[2].tool_calls[c].id)}) = 1

====
